---------------------------- MODULE Spec2Model ----------------------------
(***************************************************************************)
(* A model of pynocle/utils.py (Python 2): the recursive file collector    *)
(* find_all/_FindAll, the report driver write_report, the registry         *)
(* ExtensionFormatterRegistry and the helpers flatten,                     *)
(* swap_keys_and_values and prettify_path.                                 *)
(*                                                                         *)
(* Python strings are modelled as sequences of one-character strings, so   *)
(* that fnmatch, str.replace, str.strip, os.path.splitext and              *)
(* os.path.abspath are computed character by character.                    *)
(***************************************************************************)
EXTENDS Integers, Sequences, FiniteSets, TLC

VARIABLES
    \* ---- find_all / _FindAll
    fpc,                  \* "start" | "walk" | "done"
    fs,                   \* the file system find_all runs on (index into FileSystems)
    files_and_folders,    \* argument of find_all
    pattern,              \* argument of find_all
    processed_files,      \* _FindAll.processed_files
    processed_files_set,  \* _FindAll.processed_files_set
    stack,                \* the active calls of _FindAll.findall, innermost last
    found,                \* the list find_all returned
    \* ---- write_report
    wpc,                  \* "start", a step of Steps, "exit", "unwinding", "returned" or "raised"
    failing,              \* the step the environment makes fail ("none": no step)
    data,                 \* argument of write_report
    fmt,                  \* the formatter formatter_factory returned
    sinkOpened,           \* open(filename, 'w') returned a file object
    sinkClosed,           \* that file object has been closed
    calls,                \* the calls write_report has made, in order
    factoryArg,           \* what formatter_factory was called with
    thrown,               \* the exception raised by the failing step
    escaped,              \* the exception that left write_report
    \* ---- ExtensionFormatterRegistry
    mapping,              \* ExtensionFormatterRegistry.mapping
    lastCall,             \* arguments of the last GetFormatterFactory call
    returned,             \* what that call returned
    \* ---- swap_keys_and_values
    spc,                  \* "start" | "swapped" | "back"
    d,                    \* the argument
    itemorder,            \* the order d.keys() / d.values() enumerate d in
    swapped,              \* outcome of swap_keys_and_values(d)
    swappedBack,          \* outcome of swap_keys_and_values on that result
    \* ---- prettify_path
    ppc,                  \* "start" | "done"
    platform,             \* "posix" | "nt"
    path,                 \* argument
    leading,              \* argument (None: absent)
    pretty,               \* outcome of prettify_path(path, leading)
    \* ---- flatten
    gpc,                  \* "start" | "run" | "done"
    tree,                 \* getchildren: node -> sequence of children
    root,                 \* the node flatten is called on
    gstack,               \* the suspended generator frames, innermost last
    yielded               \* the nodes the outermost generator has yielded so far

findVars    == <<fpc, fs, files_and_folders, pattern, processed_files,
                 processed_files_set, stack, found>>
reportVars  == <<wpc, failing, data, fmt, sinkOpened, sinkClosed, calls, factoryArg, thrown, escaped>>
regVars     == <<mapping, lastCall, returned>>
swapVars    == <<spc, d, itemorder, swapped, swappedBack>>
prettyVars  == <<ppc, platform, path, leading, pretty>>
flattenVars == <<gpc, tree, root, gstack, yielded>>
vars        == <<findVars, reportVars, regVars, swapVars, prettyVars, flattenVars>>

otherThanFind    == <<reportVars, regVars, swapVars, prettyVars, flattenVars>>
otherThanReport  == <<findVars, regVars, swapVars, prettyVars, flattenVars>>
otherThanReg     == <<findVars, reportVars, swapVars, prettyVars, flattenVars>>
otherThanSwap    == <<findVars, reportVars, regVars, prettyVars, flattenVars>>
otherThanPretty  == <<findVars, reportVars, regVars, swapVars, flattenVars>>
otherThanFlatten == <<findVars, reportVars, regVars, swapVars, prettyVars>>

None == "None"

(***************************************************************************)
(* Bounds of the model.                                                    *)
(***************************************************************************)
MaxRoots == 2        \* longest list of roots handed to find_all

(***************************************************************************)
(* Python's sequence and string primitives.                                *)
(***************************************************************************)
Range(s) == {s[i] : i \in 1..Len(s)}

SeqsUpTo(S, n) == UNION {[1..k -> S] : k \in 0..n}

Last(s) == s[Len(s)]

\* str.startswith
StartsWith(s, p) == Len(p) <= Len(s) /\ SubSeq(s, 1, Len(p)) = p

\* str.rfind for a one-character needle: the last index of c, 0 when absent
\* (Python's -1, indices shifted by one).
RFind(s, c) ==
    IF \E i \in 1..Len(s) : s[i] = c
    THEN CHOOSE i \in 1..Len(s) : s[i] = c /\ \A j \in (i+1)..Len(s) : s[j] # c
    ELSE 0

\* str.split(sep) for a one-character separator.
RECURSIVE SplitAcc(_, _, _)
SplitAcc(s, c, cur) ==
    IF s = <<>> THEN <<cur>>
    ELSE IF Head(s) = c THEN <<cur>> \o SplitAcc(Tail(s), c, <<>>)
    ELSE SplitAcc(Tail(s), c, Append(cur, Head(s)))

Split(s, c) == SplitAcc(s, c, <<>>)

\* sep.join(parts)
RECURSIVE Join(_, _)
Join(parts, c) ==
    IF parts = <<>> THEN <<>>
    ELSE IF Len(parts) = 1 THEN parts[1]
    ELSE parts[1] \o <<c>> \o Join(Tail(parts), c)

\* str.replace(old, new): every non-overlapping occurrence, left to right.
RECURSIVE Replace(_, _, _)
Replace(s, old, new) ==
    IF s = <<>> THEN <<>>
    ELSE IF old # <<>> /\ StartsWith(s, old)
         THEN new \o Replace(SubSeq(s, Len(old) + 1, Len(s)), old, new)
         ELSE <<Head(s)>> \o Replace(Tail(s), old, new)

\* str.strip(c) for a one-character c.
RECURSIVE LStrip(_, _)
LStrip(s, c) == IF s # <<>> /\ Head(s) = c THEN LStrip(Tail(s), c) ELSE s

RECURSIVE RStrip(_, _)
RStrip(s, c) ==
    IF s # <<>> /\ Last(s) = c THEN RStrip(SubSeq(s, 1, Len(s) - 1), c) ELSE s

Strip(s, c) == RStrip(LStrip(s, c), c)

\* fnmatch.fnmatchcase(name, pat) for patterns of literals, '*' and '?': the
\* pattern is translated to a regular expression matched against the WHOLE
\* name, in which '*' is '.*' (any characters, separators included).
RECURSIVE fnmatch(_, _)
fnmatch(name, pat) ==
    IF pat = <<>> THEN name = <<>>
    ELSE IF Head(pat) = "*"
         THEN fnmatch(name, Tail(pat)) \/ (name # <<>> /\ fnmatch(Tail(name), pat))
    ELSE IF name = <<>> THEN FALSE
    ELSE IF Head(pat) = "?" THEN fnmatch(Tail(name), Tail(pat))
    ELSE Head(pat) = Head(name) /\ fnmatch(Tail(name), Tail(pat))

(***************************************************************************)
(* os.path on POSIX.                                                       *)
(***************************************************************************)
Slash == "/"

isabs(p) == p # <<>> /\ Head(p) = Slash

\* posixpath.join(a, b)
join(a, b) ==
    IF isabs(b) THEN b
    ELSE IF a = <<>> \/ Last(a) = Slash THEN a \o b
    ELSE a \o <<Slash>> \o b

\* posixpath.basename(p)
basename(p) == SubSeq(p, RFind(p, Slash) + 1, Len(p))

\* the loop of posixpath.normpath over the components of the path
RECURSIVE normcomps(_, _, _)
normcomps(comps, new_comps, initial_slashes) ==
    IF comps = <<>> THEN new_comps
    ELSE LET comp == Head(comps) IN
         IF comp = <<>> \/ comp = <<".">> THEN normcomps(Tail(comps), new_comps, initial_slashes)
         ELSE IF \/ comp # <<".", ".">>
                 \/ (initial_slashes = 0 /\ new_comps = <<>>)
                 \/ (new_comps # <<>> /\ Last(new_comps) = <<".", ".">>)
              THEN normcomps(Tail(comps), Append(new_comps, comp), initial_slashes)
         ELSE IF new_comps # <<>>
              THEN normcomps(Tail(comps), SubSeq(new_comps, 1, Len(new_comps) - 1), initial_slashes)
         ELSE normcomps(Tail(comps), new_comps, initial_slashes)

\* posixpath.normpath(p)
normpath(p) ==
    IF p = <<>> THEN <<".">>
    ELSE LET initial_slashes ==
                 IF ~StartsWith(p, <<Slash>>) THEN 0
                 ELSE IF StartsWith(p, <<Slash, Slash>>) /\ ~StartsWith(p, <<Slash, Slash, Slash>>)
                      THEN 2 ELSE 1
             body == Join(normcomps(Split(p, Slash), <<>>, initial_slashes), Slash)
             full == [i \in 1..initial_slashes |-> Slash] \o body
         IN  IF full = <<>> THEN <<".">> ELSE full

\* the current directory of the process calling find_all
getcwd == <<"/", "r">>

\* posixpath.abspath(p)
abspath(p) == normpath(IF isabs(p) THEN p ELSE join(getcwd, p))


(***************************************************************************)
(* The file systems find_all is run on.  A file system is the set of its   *)
(* regular files, the set of its directories and, for each directory, the  *)
(* names os.listdir returns, in the order it returns them.                 *)
(*   FS 1:  /r/{a.py, b.txt, s/{c.py}}                                     *)
(*   FS 2:  /r/{s/{c.py, u/{e.py}}, a.py, b.txt, t/{d.py, s.txt}}          *)
(***************************************************************************)
p_r     == <<"/", "r">>
p_a     == <<"/", "r", "/", "a", ".", "p", "y">>
p_b     == <<"/", "r", "/", "b", ".", "t", "x", "t">>
p_s     == <<"/", "r", "/", "s">>
p_c     == <<"/", "r", "/", "s", "/", "c", ".", "p", "y">>
p_u     == <<"/", "r", "/", "s", "/", "u">>
p_e     == <<"/", "r", "/", "s", "/", "u", "/", "e", ".", "p", "y">>
p_t     == <<"/", "r", "/", "t">>
p_d     == <<"/", "r", "/", "t", "/", "d", ".", "p", "y">>
p_stxt  == <<"/", "r", "/", "t", "/", "s", ".", "t", "x", "t">>

FileSystems ==
    << [ files |-> {p_a, p_b, p_c},
         dirs  |-> {p_r, p_s},
         list  |-> (p_r :> <<<<"a", ".", "p", "y">>, <<"b", ".", "t", "x", "t">>, <<"s">>>>) @@ (p_s :> <<<<"c", ".", "p", "y">>>>) ],
       [ files |-> {p_a, p_b, p_c, p_e, p_d, p_stxt},
         dirs  |-> {p_r, p_s, p_u, p_t},
         list  |-> (p_r :> <<<<"s">>, <<"a", ".", "p", "y">>, <<"b", ".", "t", "x", "t">>, <<"t">>>>)
                   @@ (p_s :> <<<<"c", ".", "p", "y">>, <<"u">>>>)
                   @@ (p_u :> <<<<"e", ".", "p", "y">>>>)
                   @@ (p_t :> <<<<"d", ".", "p", "y">>, <<"s", ".", "t", "x", "t">>>>) ] >>

\* The roots a caller may name: files, directories, a directory inside another
\* root, relative and unnormalised spellings, and a path that does not exist.
RootChoices ==
    { p_r, p_a, p_s, p_t, p_c,
      <<"a", ".", "p", "y">>,            \* relative to getcwd
      <<".", "/", "s">>,             \* relative, unnormalised
      <<"/", "r", "/", "z", "z", ".", "p", "y">> }       \* does not exist

\* The glob patterns a caller may give ('*.py' is find_all's default).
Patterns == { <<"*", ".", "p", "y">>, <<"c", "*">>, <<"*", "s", "*">>, <<"?", ".", "p", "y">>, <<"*", ".", "t", "x", "t">> }

isfile(p) == p \in FileSystems[fs].files
isdir(p)  == p \in FileSystems[fs].dirs
listdir(p) == FileSystems[fs].list[p]

(***************************************************************************)
(* find_all and _FindAll.                                                  *)
(***************************************************************************)
\* _FindAll.not_yet_processed
not_yet_processed(filename) == filename \notin processed_files_set

\* fnmatch.filter(names, pat) on POSIX: the names, as given, that match.
fnmatch_filter(names, pat) == SelectSeq(names, LAMBDA n : fnmatch(n, pat))

\* The list _FindAll.findfiles appends to processed_files:
\* filter(self.not_yet_processed, fnmatch.filter(filenames, self.pattern)).
unique(filenames) ==
    IF filenames = <<>> THEN <<>>
    ELSE SelectSeq(fnmatch_filter(filenames, pattern), not_yet_processed)

\* filter(os.path.isfile, files_and_folders)
filesOf(ws) == SelectSeq(ws, isfile)

\* the elements of a list, last first
Reverse(s) == [i \in 1..Len(s) |-> s[Len(s) + 1 - i]]

\* dirsOf gone wrong: the directories of the working set taken last first
dirsOf_lastFirst(ws) == Reverse(SelectSeq(ws, isdir))

\* filter(os.path.isdir, files_and_folders)
dirsOf(ws) == SelectSeq(ws, isdir)

\* map(lambda x: os.path.join(d, x), os.listdir(d))
paths(dir) == [i \in 1..Len(listdir(dir)) |-> join(dir, listdir(dir)[i])]

\* A call of _FindAll.findall on the working set ws.  base is the length of
\* processed_files when the call was entered (kept to tell what the call
\* added); i is the position of the for loop in dirsOf(ws).
Frame(ws) == [ws |-> ws, phase |-> "files", i |-> 1, base |-> Len(processed_files)]

\* find_all builds _FindAll; __init__ calls
\* self.findall(map(os.path.abspath, files_and_folders)).
Construct ==
    /\ fpc = "start"
    /\ fpc' = "walk"
    /\ stack' = << [ws    |-> [i \in 1..Len(files_and_folders) |-> abspath(files_and_folders[i])],
                    phase |-> "files", i |-> 1, base |-> 0] >>
    /\ UNCHANGED <<fs, files_and_folders, pattern, processed_files, processed_files_set, found>>
    /\ UNCHANGED otherThanFind

\* First statement of findall: self.findfiles(filter(os.path.isfile, ...)).
FindFiles ==
    /\ fpc = "walk" /\ stack # <<>> /\ Last(stack).phase = "files"
    /\ LET new == unique(filesOf(Last(stack).ws)) IN
         /\ processed_files' = processed_files \o new
         /\ processed_files_set' = processed_files_set \cup Range(new)
    /\ stack' = [stack EXCEPT ![Len(stack)].phase = "dirs"]
    /\ UNCHANGED <<fpc, fs, files_and_folders, pattern, found>>
    /\ UNCHANGED otherThanFind

\* One turn of the for loop of findall: the recursive call on the children
\* of the next directory of the working set.
Descend ==
    /\ fpc = "walk" /\ stack # <<>> /\ Last(stack).phase = "dirs"
    /\ LET top == Last(stack) IN
         /\ top.i <= Len(dirsOf(top.ws))
         /\ stack' = Append([stack EXCEPT ![Len(stack)].i = top.i + 1],
                            Frame(paths(dirsOf(top.ws)[top.i])))
    /\ UNCHANGED <<fpc, fs, files_and_folders, pattern, processed_files,
                   processed_files_set, found>>
    /\ UNCHANGED otherThanFind

\* The for loop of findall is exhausted: the call returns.
Return ==
    /\ fpc = "walk" /\ Len(stack) > 1 /\ Last(stack).phase = "dirs"
    /\ Last(stack).i > Len(dirsOf(Last(stack).ws))
    /\ stack' = SubSeq(stack, 1, Len(stack) - 1)
    /\ UNCHANGED <<fpc, fs, files_and_folders, pattern, processed_files,
                   processed_files_set, found>>
    /\ UNCHANGED otherThanFind

\* The outermost findall returns, and find_all returns fa.processed_files.
Finish ==
    /\ fpc = "walk" /\ Len(stack) = 1 /\ Last(stack).phase = "dirs"
    /\ Last(stack).i > Len(dirsOf(Last(stack).ws))
    /\ stack' = <<>>
    /\ fpc' = "done"
    /\ found' = processed_files
    /\ UNCHANGED <<fs, files_and_folders, pattern, processed_files, processed_files_set>>
    /\ UNCHANGED otherThanFind

(***************************************************************************)
(* write_report.                                                           *)
(*                                                                         *)
(*     with open(filename, 'w') as f:                                      *)
(*         fmt = formatter_factory(f)                                      *)
(*         fmt.format_report_header()                                      *)
(*         fmt.format_data(data)                                           *)
(*         fmt.format_report_footer()                                      *)
(*                                                                         *)
(* The environment decides which step (if any) raises, and what.  Closing  *)
(* the file is taken to succeed.                                           *)
(***************************************************************************)
TheFile == "f"                      \* the file object open() returns

Steps == <<"formatter_factory", "format_report_header", "format_data", "format_report_footer">>

Exceptions == {"IOError", "ValueError"}
Formatters == {"fmtA", "fmtB"}
Datas      == {"data1", "data2"}

\* after gone wrong: format_data is called before format_report_header
after_dataFirst(step) ==
    CASE step = "formatter_factory"    -> "format_data"
      [] step = "format_data"          -> "format_report_header"
      [] step = "format_report_header" -> "format_report_footer"
      [] step = "format_report_footer" -> "exit"

\* the statement that follows `step` in the body of the with block
after(step) ==
    CASE step = "formatter_factory"    -> "format_report_header"
      [] step = "format_report_header" -> "format_data"
      [] step = "format_data"          -> "format_report_footer"
      [] step = "format_report_footer" -> "exit"

\* the call `step` makes: the function, the object it is called on, its argument
invocation(step) ==
    CASE step = "formatter_factory"    -> [fn |-> step, on |-> None, arg |-> TheFile]
      [] step = "format_report_header" -> [fn |-> step, on |-> fmt,  arg |-> None]
      [] step = "format_data"          -> [fn |-> step, on |-> fmt,  arg |-> data]
      [] step = "format_report_footer" -> [fn |-> step, on |-> fmt,  arg |-> None]

\* open(filename, 'w'): a failure here leaves the function before the with
\* block is entered.
Open ==
    /\ wpc = "start"
    /\ IF failing = "open"
       THEN /\ wpc' = "raised"
            /\ escaped' = thrown
            /\ UNCHANGED sinkOpened
       ELSE /\ wpc' = Steps[1]
            /\ sinkOpened' = TRUE
            /\ UNCHANGED escaped
    /\ UNCHANGED <<failing, data, fmt, sinkClosed, calls, factoryArg, thrown>>
    /\ UNCHANGED otherThanReport

\* One statement of the with block: the call is made; it raises or returns.
Call(step) ==
    /\ wpc = step
    /\ calls' = Append(calls, invocation(step))
    /\ wpc' = IF failing = step THEN "unwinding" ELSE after(step)
    /\ UNCHANGED <<failing, data, sinkOpened, sinkClosed, thrown, escaped>>
    /\ UNCHANGED otherThanReport

CallFactory ==
    /\ Call("formatter_factory")
    /\ factoryArg' = TheFile
    /\ IF failing = "formatter_factory" THEN fmt' = fmt ELSE fmt' \in Formatters

CallHeader == Call("format_report_header") /\ UNCHANGED <<fmt, factoryArg>>

CallData == Call("format_data") /\ UNCHANGED <<fmt, factoryArg>>

CallFooter == Call("format_report_footer") /\ UNCHANGED <<fmt, factoryArg>>

\* The with block ends normally: file.__exit__ closes f, write_report returns.
ExitWith ==
    /\ wpc = "exit"
    /\ sinkClosed' = TRUE
    /\ wpc' = "returned"
    /\ UNCHANGED <<failing, data, fmt, sinkOpened, calls, factoryArg, thrown, escaped>>
    /\ UNCHANGED otherThanReport

\* Unwind gone wrong: a plain f = open(...) without with or try/finally, which
\* leaves the file open when a statement raises
Unwind_leaks ==
    /\ wpc = "unwinding"
    /\ escaped' = thrown
    /\ wpc' = "raised"
    /\ UNCHANGED <<failing, data, fmt, sinkOpened, sinkClosed, calls, factoryArg, thrown>>
    /\ UNCHANGED otherThanReport

\* A statement of the with block raised: file.__exit__ closes f and returns a
\* false value, so the exception goes on to the caller.
Unwind ==
    /\ wpc = "unwinding"
    /\ sinkClosed' = TRUE
    /\ escaped' = thrown
    /\ wpc' = "raised"
    /\ UNCHANGED <<failing, data, fmt, sinkOpened, calls, factoryArg, thrown>>
    /\ UNCHANGED otherThanReport

(***************************************************************************)
(* ExtensionFormatterRegistry.                                             *)
(*                                                                         *)
(* A value handed back by GetFormatterFactory is a record: wrapped = FALSE *)
(* is the object `value` itself; wrapped = TRUE is the closure             *)
(* lambda stream: value(stream, **kwargs).                                 *)
(***************************************************************************)
Exts         == {".csv", ".html", ".unknown"}
Constructors == {"CsvFormatter", "HtmlFormatter"}
FalsyValues  == {None, "False"}           \* None and another false value
Values       == Constructors \cup FalsyValues
Kwargs       == {"{}", "{delim: ','}"}

Truthy(v) == v \notin FalsyValues

Bare(v)        == [wrapped |-> FALSE, value |-> v, kwargs |-> None]
Lambda(v, kw)  == [wrapped |-> TRUE,  value |-> v, kwargs |-> kw]

\* ExtensionFormatterRegistry.GetFormatter: self.mapping.get(ext, default)
GetFormatter(ext, default) ==
    IF ext \in DOMAIN mapping THEN mapping[ext] ELSE default

\* GetFormatterFactory gone wrong: `if result is None` in place of
\* `if not result`
GetFormatterFactory_noneOnly(ext, default, kwargs) ==
    LET result == GetFormatter(ext, default) IN
    IF result = None THEN Bare(result) ELSE Lambda(result, kwargs)

\* ExtensionFormatterRegistry.GetFormatterFactory
GetFormatterFactory(ext, default, kwargs) ==
    LET result == GetFormatter(ext, default) IN
    IF ~Truthy(result) THEN Bare(result) ELSE Lambda(result, kwargs)

NoCall == [ext |-> None, default |-> None, kwargs |-> None, registry |-> <<>>]

\* ExtensionFormatterRegistry.Register
Register ==
    /\ \E ext \in Exts \ {".unknown"}, value \in Values :
         mapping' = [e \in DOMAIN mapping \cup {ext} |->
                        IF e = ext THEN value ELSE mapping[e]]
    /\ UNCHANGED <<lastCall, returned>>
    /\ UNCHANGED otherThanReg

\* A call of GetFormatterFactory; lastCall keeps its arguments and the
\* registry it was made on.
CallGetFormatterFactory ==
    /\ \E ext \in Exts, default \in Values, kwargs \in Kwargs :
         /\ lastCall' = [ext |-> ext, default |-> default, kwargs |-> kwargs,
                         registry |-> mapping]
         /\ returned' = GetFormatterFactory(ext, default, kwargs)
    /\ UNCHANGED mapping
    /\ UNCHANGED otherThanReg

(***************************************************************************)
(* swap_keys_and_values.  A dict is a function; d.keys() and d.values()    *)
(* enumerate it in one and the same arbitrary order.                       *)
(***************************************************************************)
NumKeys == 3
NumVals == 3

Keys == 1..NumKeys
Vals == 11..(10 + NumVals)

Dicts == UNION {[S -> Vals] : S \in SUBSET Keys}

Perms(S) == {f \in [1..Cardinality(S) -> S] : \A i, j \in DOMAIN f : f[i] = f[j] => i = j}

\* dict(pairs): the pairs are inserted in order, a later pair replacing an
\* earlier one with the same key.
RECURSIVE dict(_)
dict(pairs) ==
    IF pairs = <<>> THEN <<>>
    ELSE LET before == dict(SubSeq(pairs, 1, Len(pairs) - 1))
             kv     == Last(pairs)
         IN  [k \in DOMAIN before \cup {kv[1]} |-> IF k = kv[1] THEN kv[2] ELSE before[k]]

\* zip(a, b) for lists of equal length
zip(a, b) == [i \in 1..Len(a) |-> <<a[i], b[i]>>]

Raise(exc)    == [raised |-> exc,  value |-> <<>>]
Returns(v)    == [raised |-> None, value |-> v]

\* swap_keys_and_values gone wrong: the comparison of the lengths is missing
swap_unchecked(dd, order) ==
    Returns(dict(zip([i \in 1..Len(order) |-> dd[order[i]]], order)))

\* swap_keys_and_values(dd), with order the enumeration order of dd
swap_keys_and_values(dd, order) ==
    LET keys   == order
        values == [i \in 1..Len(order) |-> dd[order[i]]]
        result == dict(zip(values, keys))
    IN  IF Cardinality(DOMAIN dd) # Cardinality(DOMAIN result)
        THEN Raise("KeyError")
        ELSE Returns(result)

\* the call swap_keys_and_values(d)
Swap ==
    /\ spc = "start"
    /\ swapped' = swap_keys_and_values(d, itemorder)
    /\ spc' = "swapped"
    /\ UNCHANGED <<d, itemorder, swappedBack>>
    /\ UNCHANGED otherThanSwap

\* the call swap_keys_and_values(r) on the mapping r the first call returned
SwapBack ==
    /\ spc = "swapped"
    /\ swapped.raised = None
    /\ \E order \in Perms(DOMAIN swapped.value) :
         swappedBack' = swap_keys_and_values(swapped.value, order)
    /\ spc' = "back"
    /\ UNCHANGED <<d, itemorder, swapped>>
    /\ UNCHANGED otherThanSwap

(***************************************************************************)
(* prettify_path.  os.sep and os.altsep depend on the platform: '/' and    *)
(* None on POSIX, '\' and '/' on Windows.                                  *)
(***************************************************************************)
MaxPathLen == 4

Backslash == "\\"

sep    == IF platform = "posix" THEN Slash ELSE Backslash
altsep == IF platform = "posix" THEN None ELSE Slash

\* os.getcwd() of the process calling prettify_path
prettify_cwd == IF platform = "posix" THEN getcwd ELSE <<"C", ":", Backslash, "r">>

\* os.path.splitext(p)[0]: genericpath._splitext(p, sep, altsep, '.')
splitext_root(p) ==
    LET sepIndex0 == RFind(p, sep)
        altIndex  == IF altsep = None THEN 0 ELSE RFind(p, altsep)
        sepIndex  == IF altIndex > sepIndex0 THEN altIndex ELSE sepIndex0
        dotIndex  == RFind(p, ".")
    IN  IF /\ dotIndex > sepIndex
           /\ \E j \in (sepIndex + 1)..(dotIndex - 1) : p[j] # "."
        THEN SubSeq(p, 1, dotIndex - 1)
        ELSE p

\* prettify_path(path, leading); leading = <<>> stands for None and for '',
\* which `leading or os.getcwd()` treats alike.  str.replace(None, ...)
\* raises TypeError.
prettify_path(pth, lead) ==
    IF altsep = None THEN Raise("TypeError")
    ELSE LET leading1 == Replace(IF lead = <<>> THEN prettify_cwd ELSE lead, <<altsep>>, <<sep>>)
             s        == splitext_root(Replace(pth, <<altsep>>, <<sep>>))
             s1       == IF StartsWith(s, leading1) THEN Replace(s, leading1, <<>>) ELSE s
         IN  Returns(Strip(s1, sep))

PathChars == {Slash, Backslash, "a", "."}

Paths ==
    SeqsUpTo(PathChars, MaxPathLen)
        \cup { <<"C", ":", Backslash, "r", Backslash, "a", ".", "a">>,
               <<"/", "r", "/", "a", ".", "a">>,
               <<"/", "a", "/", "a", "/", "a", ".", "a">> }

Leadings == SeqsUpTo({Slash, Backslash, "a"}, 2)

\* the call prettify_path(path, leading)
Prettify ==
    /\ ppc = "start"
    /\ pretty' = prettify_path(path, leading)
    /\ ppc' = "done"
    /\ UNCHANGED <<platform, path, leading>>
    /\ UNCHANGED otherThanPretty

(***************************************************************************)
(* flatten.  The nested generators are a stack of frames, one per active   *)
(* call flatten(node, getchildren): whether the frame has yielded its node *)
(* and where its for loop over getchildren(node) stands.                   *)
(***************************************************************************)
NumNodes == 4

Nodes == 1..NumNodes

\* the elements of a set of numbers as a list, ascending or descending
RECURSIVE Sorted(_, _)
Sorted(S, descending) ==
    IF S = {} THEN <<>>
    ELSE LET m == CHOOSE x \in S :
                    \A y \in S : IF descending THEN y <= x ELSE x <= y
         IN  <<m>> \o Sorted(S \ {m}, descending)

\* The trees over Nodes: node n > 1 hangs under a smaller node, and a node
\* lists its children in ascending or in descending order.
Trees ==
    { [n \in Nodes |-> Sorted({c \in Nodes : c > 1 /\ par[c] = n}, descending[n])] :
        par \in {p \in [Nodes -> Nodes] : p[1] = 1 /\ \A n \in Nodes \ {1} : p[n] < n},
        descending \in [Nodes -> BOOLEAN] }

getchildren(node) == tree[node]

\* flatten(root, getchildren) is called and the caller starts iterating
StartFlatten ==
    /\ gpc = "start"
    /\ gstack' = << [node |-> root, yieldedNode |-> FALSE, i |-> 1] >>
    /\ gpc' = "run"
    /\ UNCHANGED <<tree, root, yielded>>
    /\ UNCHANGED otherThanFlatten

\* `yield node` of the innermost frame; every enclosing frame passes the
\* value on (`yield gc`) to the caller.
YieldNode ==
    /\ gpc = "run" /\ gstack # <<>>
    /\ ~Last(gstack).yieldedNode
    /\ yielded' = Append(yielded, Last(gstack).node)
    /\ gstack' = [gstack EXCEPT ![Len(gstack)].yieldedNode = TRUE]
    /\ UNCHANGED <<gpc, tree, root>>
    /\ UNCHANGED otherThanFlatten

\* EnterChild gone wrong: the children are taken last first
EnterChild_lastFirst ==
    /\ gpc = "run" /\ gstack # <<>>
    /\ LET top == Last(gstack)
           n   == Len(getchildren(top.node)) IN
         /\ top.yieldedNode
         /\ top.i <= n
         /\ gstack' = Append([gstack EXCEPT ![Len(gstack)].i = top.i + 1],
                             [node |-> getchildren(top.node)[n + 1 - top.i],
                              yieldedNode |-> FALSE, i |-> 1])
    /\ UNCHANGED <<gpc, tree, root, yielded>>
    /\ UNCHANGED otherThanFlatten

\* the for loop over getchildren(node) takes its next child and calls
\* flatten(child, getchildren)
EnterChild ==
    /\ gpc = "run" /\ gstack # <<>>
    /\ LET top == Last(gstack) IN
         /\ top.yieldedNode
         /\ top.i <= Len(getchildren(top.node))
         /\ gstack' = Append([gstack EXCEPT ![Len(gstack)].i = top.i + 1],
                             [node |-> getchildren(top.node)[top.i],
                              yieldedNode |-> FALSE, i |-> 1])
    /\ UNCHANGED <<gpc, tree, root, yielded>>
    /\ UNCHANGED otherThanFlatten

\* the for loop of the innermost frame is exhausted: the generator ends;
\* when it is the outermost one, the iteration is over.
Exhaust ==
    /\ gpc = "run" /\ gstack # <<>>
    /\ Last(gstack).yieldedNode
    /\ Last(gstack).i > Len(getchildren(Last(gstack).node))
    /\ gstack' = SubSeq(gstack, 1, Len(gstack) - 1)
    /\ gpc' = IF Len(gstack) = 1 THEN "done" ELSE "run"
    /\ UNCHANGED <<tree, root, yielded>>
    /\ UNCHANGED otherThanFlatten

(***************************************************************************)
(* The specifications, one per part of the module.  Each starts the part   *)
(* it is about with its inputs drawn from the sets above and leaves the    *)
(* variables of the other parts at rest.                                   *)
(***************************************************************************)
\* find_all is about to be called: a file system, a list of roots, a pattern.
FindInit ==
    /\ fpc = "start"
    /\ fs \in 1..Len(FileSystems)
    /\ files_and_folders \in SeqsUpTo(RootChoices, MaxRoots)
    /\ pattern \in Patterns
    /\ processed_files = <<>>
    /\ processed_files_set = {}
    /\ stack = <<>>
    /\ found = <<>>
    /\ wpc = "idle" /\ failing = "none" /\ data = None /\ fmt = None
    /\ sinkOpened = FALSE /\ sinkClosed = FALSE /\ calls = <<>>
    /\ factoryArg = None /\ thrown = None /\ escaped = None
    /\ mapping = <<>> /\ lastCall = NoCall /\ returned = Bare(None)
    /\ spc = "idle" /\ d = <<>> /\ itemorder = <<>>
    /\ swapped = Returns(<<>>) /\ swappedBack = Returns(<<>>)
    /\ ppc = "idle" /\ platform = "posix" /\ path = <<>> /\ leading = <<>>
    /\ pretty = Returns(<<>>)
    /\ gpc = "idle" /\ tree = <<>> /\ root = 1 /\ gstack = <<>> /\ yielded = <<>>

FindNext == Construct \/ FindFiles \/ Descend \/ Return \/ Finish

SpecFind == FindInit /\ [][FindNext]_vars

\* write_report is about to be called; the environment has fixed which step
\* fails, and with what.
ReportInit ==
    /\ fpc = "idle" /\ fs = 1 /\ files_and_folders = <<>> /\ pattern = <<>>
    /\ processed_files = <<>> /\ processed_files_set = {} /\ stack = <<>> /\ found = <<>>
    /\ wpc = "start"
    /\ failing \in {"none", "open"} \cup Range(Steps)
    /\ data \in Datas
    /\ thrown \in Exceptions
    /\ fmt = None
    /\ sinkOpened = FALSE
    /\ sinkClosed = FALSE
    /\ calls = <<>>
    /\ factoryArg = None
    /\ escaped = None
    /\ mapping = <<>> /\ lastCall = NoCall /\ returned = Bare(None)
    /\ spc = "idle" /\ d = <<>> /\ itemorder = <<>>
    /\ swapped = Returns(<<>>) /\ swappedBack = Returns(<<>>)
    /\ ppc = "idle" /\ platform = "posix" /\ path = <<>> /\ leading = <<>>
    /\ pretty = Returns(<<>>)
    /\ gpc = "idle" /\ tree = <<>> /\ root = 1 /\ gstack = <<>> /\ yielded = <<>>

ReportNext == Open \/ CallFactory \/ CallHeader \/ CallData \/ CallFooter \/ ExitWith \/ Unwind

SpecReport == ReportInit /\ [][ReportNext]_vars

\* ExtensionFormatterRegistry.__init__ with the default mapping=()
RegInit ==
    /\ fpc = "idle" /\ fs = 1 /\ files_and_folders = <<>> /\ pattern = <<>>
    /\ processed_files = <<>> /\ processed_files_set = {} /\ stack = <<>> /\ found = <<>>
    /\ wpc = "idle" /\ failing = "none" /\ data = None /\ fmt = None
    /\ sinkOpened = FALSE /\ sinkClosed = FALSE /\ calls = <<>>
    /\ factoryArg = None /\ thrown = None /\ escaped = None
    /\ mapping = <<>>
    /\ lastCall = NoCall
    /\ returned = Bare(None)
    /\ spc = "idle" /\ d = <<>> /\ itemorder = <<>>
    /\ swapped = Returns(<<>>) /\ swappedBack = Returns(<<>>)
    /\ ppc = "idle" /\ platform = "posix" /\ path = <<>> /\ leading = <<>>
    /\ pretty = Returns(<<>>)
    /\ gpc = "idle" /\ tree = <<>> /\ root = 1 /\ gstack = <<>> /\ yielded = <<>>

RegNext == Register \/ CallGetFormatterFactory

SpecRegistry == RegInit /\ [][RegNext]_vars

\* swap_keys_and_values is about to be called on a dict d.
SwapInit ==
    /\ fpc = "idle" /\ fs = 1 /\ files_and_folders = <<>> /\ pattern = <<>>
    /\ processed_files = <<>> /\ processed_files_set = {} /\ stack = <<>> /\ found = <<>>
    /\ wpc = "idle" /\ failing = "none" /\ data = None /\ fmt = None
    /\ sinkOpened = FALSE /\ sinkClosed = FALSE /\ calls = <<>>
    /\ factoryArg = None /\ thrown = None /\ escaped = None
    /\ mapping = <<>> /\ lastCall = NoCall /\ returned = Bare(None)
    /\ spc = "start"
    /\ d \in Dicts
    /\ itemorder \in Perms(DOMAIN d)
    /\ swapped = Returns(<<>>)
    /\ swappedBack = Returns(<<>>)
    /\ ppc = "idle" /\ platform = "posix" /\ path = <<>> /\ leading = <<>>
    /\ pretty = Returns(<<>>)
    /\ gpc = "idle" /\ tree = <<>> /\ root = 1 /\ gstack = <<>> /\ yielded = <<>>

SwapNext == Swap \/ SwapBack

SpecSwap == SwapInit /\ [][SwapNext]_vars

\* prettify_path is about to be called on some platform.
PrettyInit ==
    /\ fpc = "idle" /\ fs = 1 /\ files_and_folders = <<>> /\ pattern = <<>>
    /\ processed_files = <<>> /\ processed_files_set = {} /\ stack = <<>> /\ found = <<>>
    /\ wpc = "idle" /\ failing = "none" /\ data = None /\ fmt = None
    /\ sinkOpened = FALSE /\ sinkClosed = FALSE /\ calls = <<>>
    /\ factoryArg = None /\ thrown = None /\ escaped = None
    /\ mapping = <<>> /\ lastCall = NoCall /\ returned = Bare(None)
    /\ spc = "idle" /\ d = <<>> /\ itemorder = <<>>
    /\ swapped = Returns(<<>>) /\ swappedBack = Returns(<<>>)
    /\ ppc = "start"
    /\ platform \in {"posix", "nt"}
    /\ path \in Paths
    /\ leading \in Leadings
    /\ pretty = Returns(<<>>)
    /\ gpc = "idle" /\ tree = <<>> /\ root = 1 /\ gstack = <<>> /\ yielded = <<>>

PrettyNext == Prettify

SpecPretty == PrettyInit /\ [][PrettyNext]_vars

\* flatten is about to be called on a node of a tree.
FlattenInit ==
    /\ fpc = "idle" /\ fs = 1 /\ files_and_folders = <<>> /\ pattern = <<>>
    /\ processed_files = <<>> /\ processed_files_set = {} /\ stack = <<>> /\ found = <<>>
    /\ wpc = "idle" /\ failing = "none" /\ data = None /\ fmt = None
    /\ sinkOpened = FALSE /\ sinkClosed = FALSE /\ calls = <<>>
    /\ factoryArg = None /\ thrown = None /\ escaped = None
    /\ mapping = <<>> /\ lastCall = NoCall /\ returned = Bare(None)
    /\ spc = "idle" /\ d = <<>> /\ itemorder = <<>>
    /\ swapped = Returns(<<>>) /\ swappedBack = Returns(<<>>)
    /\ ppc = "idle" /\ platform = "posix" /\ path = <<>> /\ leading = <<>>
    /\ pretty = Returns(<<>>)
    /\ gpc = "start"
    /\ tree \in Trees
    /\ root \in Nodes
    /\ gstack = <<>>
    /\ yielded = <<>>

FlattenNext == StartFlatten \/ YieldNode \/ EnterChild \/ Exhaust

\* The caller of flatten iterates the generator to its end and nothing else
\* runs, so a step that can be taken is taken.
SpecFlatten == FlattenInit /\ [][FlattenNext]_vars /\ WF_vars(FlattenNext)

(***************************************************************************)
(* Properties of find_all.                                                 *)
(***************************************************************************)
\* f lies, at any depth, under the directory dir
Under(f, dir) == StartsWith(f, dir \o <<Slash>>) /\ Len(f) > Len(dir) + 1

\* the roots as find_all resolves them
Roots == [i \in 1..Len(files_and_folders) |-> abspath(files_and_folders[i])]

\* the regular files that are a root or lie under a root directory
Candidates ==
    {f \in FileSystems[fs].files :
        \E i \in 1..Len(Roots) : Roots[i] = f \/ (isdir(Roots[i]) /\ Under(f, Roots[i]))}

\* C1: the list returned by find_all contains no absolute path more than
\* once, whatever the roots (the same file or directory named twice,
\* overlapping trees) and the pattern.
C1_NoDuplicates ==
    \A i, j \in 1..Len(found) : found[i] = found[j] => i = j

\* C2: the set of paths find_all returns is exactly the set of regular files
\* that are a root or lie at any depth under a root directory and whose name
\* matches the pattern; nothing else appears, and find_all([]) returns [].
C2_ExactlyTheMatchingFiles ==
    fpc = "done" =>
        /\ Range(found) = {f \in Candidates : fnmatch(basename(f), pattern)}
        /\ (files_and_folders = <<>> => found = <<>>)

\* C3: findfiles keeps a file exactly when its base name matches the glob
\* pattern (and it is new), whatever the directory part of its absolute
\* path: each findfiles pass appends the not yet processed files of its
\* working set whose base name matches, and no others.
C3_BaseNameOnly ==
    [][FindFiles =>
         processed_files' = processed_files \o
             SelectSeq(filesOf(Last(stack).ws),
                       LAMBDA f : fnmatch(basename(f), pattern) /\ not_yet_processed(f))]_vars

\* What a call of findall on the working set ws, entered when processed_files
\* had base entries, may have added to list: the files of ws come before
\* every file found by descending, and the files found by descending come in
\* the order of the first directory of ws that holds them.
LevelOrdered(ws, base, list) ==
    LET new == (base + 1)..Len(list)
        inWs(i) == \E m \in 1..Len(ws) : ws[m] = list[i]
        holders(i) == {m \in 1..Len(ws) : isdir(ws[m]) /\ Under(list[i], ws[m])}
        firstDir(i) == IF holders(i) = {} THEN 0
                       ELSE CHOOSE m \in holders(i) : \A n \in holders(i) : m <= n
    IN  /\ \A i, j \in new : inWs(i) /\ ~inWs(j) => i < j
        /\ \A i \in new : ~inWs(i) => firstDir(i) > 0
        /\ \A i, j \in new :
              ~inWs(i) /\ ~inWs(j) /\ firstDir(i) < firstDir(j) => i < j

\* C4: at every level of the walk, the newly found matching files of the
\* working set come before every file first found by descending into a
\* directory of that working set, and the subtrees of sibling directories
\* contribute their files in the order the directories have in the working
\* set; so it is for the list find_all returns and its roots.
C4_FilesBeforeDescent ==
    /\ \A k \in 1..Len(stack) :
          stack[k].phase = "dirs" =>
              LevelOrdered(stack[k].ws, stack[k].base, processed_files)
    /\ fpc = "done" => LevelOrdered(Roots, 0, found)

\* C4's case: /r of FS 2 has been walked for '*.py': the file of /r itself
\* (listed after the directory s), then the subtree of s, its own file before
\* that of its subdirectory u, then the subtree of t.
C4_Witness ==
    /\ fpc = "done" /\ fs = 2 /\ files_and_folders = <<p_r>>
    /\ found = <<p_a, p_c, p_e, p_d>>

(***************************************************************************)
(* Properties of write_report.                                             *)
(***************************************************************************)
\* C5: when the output file was opened, it is closed by the time
\* write_report returns or raises, whichever of formatter_factory,
\* format_report_header, format_data or format_report_footer fails, and the
\* exception raised by that step reaches the caller unchanged.
C5_SinkClosedOnEveryExit ==
    /\ (wpc \in {"returned", "raised"} /\ sinkOpened) => sinkClosed
    /\ wpc = "raised" => (failing # "none" /\ escaped = thrown)
    /\ wpc = "returned" => (failing = "none" /\ escaped = None)

\* C5's case: format_data raised; the file had been opened.
C5_Witness ==
    /\ wpc = "raised" /\ failing = "format_data" /\ sinkOpened /\ sinkClosed
    /\ escaped = "ValueError"

\* C6: write_report calls formatter_factory once with the opened file, then,
\* on the formatter it returned, format_report_header, format_data(data) and
\* format_report_footer in that order, each at most once; a step is called
\* only after its predecessor returned, and none after one has raised.
C6_StrictOrder ==
    /\ Len(calls) <= Len(Steps)
    /\ \A i \in 1..Len(calls) :
          /\ calls[i].fn = Steps[i]
          /\ i = 1 => (calls[i].arg = TheFile /\ factoryArg = TheFile /\ sinkOpened)
          /\ i > 1 => (calls[i].on = fmt /\ fmt \in Formatters)
          /\ i = 3 => calls[i].arg = data
          /\ (i < Len(calls)) => failing # calls[i].fn
    /\ wpc = "returned" => Len(calls) = Len(Steps)
    /\ (wpc \in {"unwinding", "raised"} /\ failing # "open") =>
          (calls # <<>> /\ Last(calls).fn = failing)
    /\ (wpc = "raised" /\ failing = "open") => calls = <<>>

\* C6's case: all four calls were made and write_report returned.
C6_Witness ==
    /\ wpc = "returned" /\ Len(calls) = 4 /\ calls[3].arg = "data2" /\ fmt = "fmtB"

(***************************************************************************)
(* Properties of ExtensionFormatterRegistry.GetFormatterFactory.           *)
(***************************************************************************)
Unregistered == lastCall # NoCall /\ lastCall.ext \notin DOMAIN lastCall.registry

\* C7 as stated: for an extension with no registered constructor and every
\* default (absent, falsy or a real constructor), GetFormatterFactory
\* returns that default itself, unchanged and unwrapped.
C7_ReturnsDefaultItself ==
    Unregistered => returned = Bare(lastCall.default)

\* C7 as amended: for an extension that is not registered, an absent or
\* falsy default is returned itself, unwrapped; a default that is a real
\* constructor is returned wrapped in the factory that calls it with the
\* stream and the options.
C7_FalsyDefaultItselfElseWrapped ==
    Unregistered =>
        returned = IF lastCall.default \in FalsyValues
                   THEN Bare(lastCall.default)
                   ELSE Lambda(lastCall.default, lastCall.kwargs)

\* C7's case: a falsy default other than None came back for an unregistered
\* extension of a registry that holds constructors.
C7_Witness ==
    /\ lastCall.ext = ".unknown" /\ lastCall.default = "False"
    /\ ".csv" \in DOMAIN lastCall.registry
    /\ returned = Bare("False")

(***************************************************************************)
(* Properties of swap_keys_and_values.                                     *)
(***************************************************************************)
\* C8: swap_keys_and_values(d) fails exactly when two distinct keys of d
\* share a value; otherwise it returns r with r[v] = k for every pair (k, v)
\* of d and no other keys, and swapping r again gives back d.
C8_SwapInvertsOrFails ==
    /\ spc \in {"swapped", "back"} =>
          /\ (swapped.raised # None)
                <=> (\E k1, k2 \in DOMAIN d : k1 # k2 /\ d[k1] = d[k2])
          /\ swapped.raised = None =>
                /\ DOMAIN swapped.value = {d[k] : k \in DOMAIN d}
                /\ \A k \in DOMAIN d : swapped.value[d[k]] = k
    /\ spc = "swapped" /\ swapped.raised = None => ENABLED SwapBack
    /\ spc = "back" => swappedBack = Returns(d)

\* C8's case: a mapping of three keys with distinct values was swapped and
\* swapped back.
C8_Witness ==
    /\ spc = "back" /\ Cardinality(DOMAIN d) = 3
    /\ swappedBack.value = d /\ swapped.value # d

(***************************************************************************)
(* Properties of prettify_path.                                            *)
(***************************************************************************)
\* C9: for a path that begins with the leading prefix, prettify_path returns
\* the path with its extension removed, that one leading prefix removed (a
\* later occurrence of the same text is kept) and leading and trailing
\* separators stripped; a path that does not begin with leading keeps all of
\* its directory components.
C9_StripsOnePrefix ==
    ppc = "done" =>
        LET norm(t) == IF altsep = None THEN t ELSE Replace(t, <<altsep>>, <<sep>>)
            lead    == norm(IF leading = <<>> THEN prettify_cwd ELSE leading)
            s       == splitext_root(norm(path))
        IN  /\ StartsWith(s, lead) =>
                  pretty = Returns(Strip(SubSeq(s, Len(lead) + 1, Len(s)), sep))
            /\ ~StartsWith(norm(path), lead) =>
                  pretty = Returns(Strip(s, sep))

(***************************************************************************)
(* Properties of flatten.                                                  *)
(***************************************************************************)
\* the nodes of the tree under node n, n included
RECURSIVE Subtree(_)
Subtree(n) == {n} \cup UNION {Subtree(tree[n][k]) : k \in 1..Len(tree[n])}

\* the number of nodes in the subtrees of the first k children of n
RECURSIVE SizeOfFirst(_, _)
SizeOfFirst(n, k) ==
    IF k = 0 THEN 0 ELSE SizeOfFirst(n, k - 1) + Cardinality(Subtree(tree[n][k]))

Pos(n) == CHOOSE i \in 1..Len(yielded) : yielded[i] = n

\* yielded is the depth-first pre-order of the tree under root: every node
\* once, the root first, each child's flattening right after that of the
\* child before it (the first child's right after the parent).
IsPreOrder ==
    /\ Len(yielded) = Cardinality(Subtree(root))
    /\ Range(yielded) = Subtree(root)
    /\ yielded[1] = root
    /\ \A n \in Subtree(root) : \A k \in 1..Len(tree[n]) :
          Pos(tree[n][k]) = Pos(n) + 1 + SizeOfFirst(n, k - 1)

\* C10: on a finite tree, flatten terminates and yields the nodes in
\* depth-first pre-order: the node first, then the complete flattening of
\* each child in the order getchildren returns them, every node once.
C10_PreOrderAndTerminates ==
    /\ [](gpc = "done" => IsPreOrder)
    /\ <>(gpc = "done")

\* C10's case: the tree 1 -> [2, 3], 2 -> [4] has been flattened from 1.
C10_Witness ==
    /\ gpc = "done" /\ root = 1
    /\ tree[1] = <<2, 3>> /\ tree[2] = <<4>> /\ tree[3] = <<>> /\ tree[4] = <<>>
    /\ yielded = <<1, 2, 4, 3>>

==========================================================================
